---- MODULE Spec2Model ----
(***************************************************************************)
(* Model of the Router class of src/mod.ts: the route table (_routes),     *)
(* the six registration methods and the dispatch function (handler).       *)
(*                                                                         *)
(* Strings that the code takes apart (templates, pathnames, captured       *)
(* values) are sequences of UTF-16 code units, so that decodeURIComponent  *)
(* and the pattern matcher are computed and not assumed.  Strings the code *)
(* only compares (method names, object keys) are TLA+ strings.             *)
(*                                                                         *)
(* src/mod.ts holds the class twice: lines 65-174 build the 404 response   *)
(* in handler, lines 201-251 keep it in the field _defaultResponse.  The   *)
(* variable defaultResponse says which of the two class bodies the router  *)
(* instance was constructed from.                                          *)
(***************************************************************************)
EXTENDS Integers, Sequences, FiniteSets, TLC

VARIABLES routes, defaultResponse, registered, last

vars == <<routes, defaultResponse, registered, last>>

(* ---- bounds ---- *)
MaxRoutes == 2

(* ---- the HTTP methods of enum Method ---- *)
Method == {"GET", "POST", "PUT", "DELETE", "PATCH"}

(* Property names every object literal inherits from Object.prototype; the *)
(* `in` operator and the [] lookup of handler both see them.               *)
ObjectPrototype ==
  [k \in {"toString", "__proto__"} |->
     IF k = "toString"
     THEN [kind |-> "function", id |-> "Object.prototype.toString"]
     ELSE [kind |-> "object", id |-> "Object.prototype"]]

(* request.method values that are dispatched *)
RequestMethods == {"GET", "POST", "OPTIONS", "toString"}

(* ---- ResponseLike values handed to the registration methods ---- *)
S1 == [kind |-> "Response", id |-> "S1"]
P1 == [kind |-> "Promise", id |-> "P1"]
F1 == [kind |-> "function", id |-> "F1"]

(* the get/post/put/delete/patch calls register the handler function; the *)
(* Response and the Promise<Response> are registered through route()      *)
ResponseLike == {F1}

(* typeof response === "function" *)
TypeOf(response) == IF response.kind = "function" THEN "function" ELSE "object"

(* MethodResponses objects handed to route() *)
MethodResponses == { [m \in {"GET", "POST"} |-> IF m = "GET" THEN S1 ELSE P1] }

(* key in obj: own keys and the inherited ones *)
In(key, obj) == key \in DOMAIN obj \/ key \in DOMAIN ObjectPrototype

(* obj[key] for a key that is `in` obj *)
Get(obj, key) == IF key \in DOMAIN obj THEN obj[key] ELSE ObjectPrototype[key]

(* ---- strings as code units ---- *)
(* "/x/:id?" *)
TOpt == <<47, 120, 47, 58, 105, 100, 63>>
(* "/x/*" *)
TWild == <<47, 120, 47, 42>>
(* "/x/(" : an unterminated group, rejected by the URLPattern constructor *)
TBad == <<47, 120, 47, 40>>

Templates == {TOpt, TWild, TBad}

(* "/x" *)
UX == <<47, 120>>
(* "/x/" *)
UXSlash == <<47, 120, 47>>
(* "/x/a%20b" *)
UXSpace == <<47, 120, 47, 97, 37, 50, 48, 98>>
(* "/x/%zz" *)
UXBad == <<47, 120, 47, 37, 122, 122>>

(* pathnames of request.url *)
Urls == {UX, UXSlash, UXSpace, UXBad}

(* ---- decodeURIComponent (ECMA-262 Decode with an empty reserved set) ---- *)
IsHex(c) == c \in (48..57) \cup (65..70) \cup (97..102)

HexVal(c) == IF c \in 48..57 THEN c - 48 ELSE IF c \in 65..70 THEN c - 55 ELSE c - 87

IsEscape(s, k) == k + 2 <= Len(s) /\ s[k] = 37 /\ IsHex(s[k + 1]) /\ IsHex(s[k + 2])

ByteAt(s, k) == 16 * HexVal(s[k + 1]) + HexVal(s[k + 2])

LeadingOnes(B) ==
  IF B < 128 THEN 0 ELSE IF B < 192 THEN 1 ELSE IF B < 224 THEN 2
  ELSE IF B < 240 THEN 3 ELSE IF B < 248 THEN 4 ELSE 5

RECURSIVE CodePoint(_, _, _, _)
CodePoint(s, k, j, n) ==
  IF j = n THEN 0
  ELSE LET B == ByteAt(s, k + 3 * j)
           payload == IF j > 0 THEN B - 128
                      ELSE IF n = 2 THEN B - 192 ELSE IF n = 3 THEN B - 224 ELSE B - 240
       IN payload * (64 ^ (n - 1 - j)) + CodePoint(s, k, j + 1, n)

ValidCodePoint(cp, n) ==
  IF n = 2 THEN cp >= 128
  ELSE IF n = 3 THEN cp >= 2048 /\ ~(cp \in 55296..57343)
  ELSE cp >= 65536 /\ cp <= 1114111

Utf16(cp) ==
  IF cp < 65536 THEN <<cp>>
  ELSE <<55296 + ((cp - 65536) \div 1024), 56320 + ((cp - 65536) % 1024)>>

URIError == [ok |-> FALSE, str |-> <<>>]

RECURSIVE Decode(_, _, _)
Decode(s, k, acc) ==
  IF k > Len(s) THEN [ok |-> TRUE, str |-> acc]
  ELSE IF s[k] # 37 THEN Decode(s, k + 1, Append(acc, s[k]))
  ELSE IF ~IsEscape(s, k) THEN URIError
  ELSE LET B == ByteAt(s, k)
           n == LeadingOnes(B)
       IN IF n = 0 THEN Decode(s, k + 3, Append(acc, B))
          ELSE IF n = 1 \/ n > 4 THEN URIError
          ELSE IF k + 3 * n - 1 > Len(s) THEN URIError
          ELSE IF \E j \in 1..(n - 1) :
                    ~IsEscape(s, k + 3 * j) \/ ~(ByteAt(s, k + 3 * j) \in 128..191)
               THEN URIError
          ELSE LET cp == CodePoint(s, k, 0, n)
               IN IF ~ValidCodePoint(cp, n) THEN URIError
                  ELSE Decode(s, k + 3 * n, acc \o Utf16(cp))

decodeURIComponent(s) == Decode(s, 1, <<>>)

(* ---- URLPattern({ pathname }) ---- *)
(* A captured group is <<>> (undefined) or <<s>> (the string s). *)
NoGroups == [g \in {} |-> <<>>]

IsNameChar(c) == c \in (65..90) \cup (97..122)

Special == {58, 42, 40, 41, 123, 125, 63, 43, 92}

NoPattern == [fixed |-> <<>>, tail |-> "never", name |-> <<>>]

(* new URLPattern({ pathname: template }) for templates made of a literal  *)
(* prefix and at most one trailing group "/:name", "/:name?" or "/*".      *)
(* Every other template with a special character is answered with a        *)
(* TypeError, which is what the constructor does for the ones in Templates.*)
Compile(template) ==
  LET specials == {p \in 1..Len(template) : template[p] \in Special}
  IN IF specials = {} THEN [ok |-> TRUE, pattern |-> [fixed |-> template, tail |-> "none", name |-> <<>>]]
     ELSE LET p == CHOOSE q \in specials : \A r \in specials : q <= r
              n == Len(template)
              hasOpt == template[n] = 63
              nameEnd == IF hasOpt THEN n - 1 ELSE n
          IN IF p < 2 \/ template[p - 1] # 47 THEN [ok |-> FALSE, pattern |-> NoPattern]
             ELSE IF template[p] = 42 /\ p = n
                  THEN [ok |-> TRUE, pattern |-> [fixed |-> SubSeq(template, 1, p - 2), tail |-> "wild", name |-> <<48>>]]
             ELSE IF template[p] = 58 /\ nameEnd > p /\ \A q \in (p + 1)..nameEnd : IsNameChar(template[q])
                  THEN [ok |-> TRUE,
                        pattern |-> [fixed |-> SubSeq(template, 1, p - 2),
                                     tail |-> IF hasOpt THEN "optname" ELSE "name",
                                     name |-> SubSeq(template, p + 1, nameEnd)]]
             ELSE [ok |-> FALSE, pattern |-> NoPattern]

(* the constructor's result for each template that is registered *)
Compiled == [template \in Templates |-> Compile(template)]

Rest(pattern, url) == SubSeq(url, Len(pattern.fixed) + 1, Len(url))

HasPrefix(pattern, url) ==
  Len(url) >= Len(pattern.fixed) /\ SubSeq(url, 1, Len(pattern.fixed)) = pattern.fixed

IsSegment(rest) ==
  Len(rest) >= 2 /\ rest[1] = 47 /\ \A q \in 2..Len(rest) : rest[q] # 47

(* pattern.test(request.url) *)
Test(pattern, url) ==
  /\ pattern.tail # "never"
  /\ HasPrefix(pattern, url)
  /\ LET rest == Rest(pattern, url)
     IN CASE pattern.tail = "none" -> rest = <<>>
          [] pattern.tail = "name" -> IsSegment(rest)
          [] pattern.tail = "optname" -> rest = <<>> \/ IsSegment(rest)
          [] pattern.tail = "wild" -> Len(rest) >= 1 /\ rest[1] = 47

(* pattern.exec(request.url)!.pathname.groups, called after test succeeded *)
Exec(pattern, url) ==
  LET rest == Rest(pattern, url)
  IN IF pattern.tail = "none" THEN NoGroups
     ELSE [g \in {pattern.name} |-> IF rest = <<>> THEN <<>> ELSE <<Tail(rest)>>]

(* ---- handler ---- *)
(* new Response(null, { status: 404 }); by tells the objects apart: the one *)
(* the constructor makes once, or one that a call of handler makes         *)
Response404(by) == [kind |-> "Response", status |-> 404, body |-> "null", by |-> by]

(* the class body of lines 65-174 has no _defaultResponse field *)
NoField == [kind |-> "undefined", status |-> 0, body |-> "undefined", by |-> "nobody"]

(* if (query[key]) : undefined and "" are falsy *)
Truthy(v) == v # <<>> /\ v[1] # <<>>

(* the string conversion of a group value, as decodeURIComponent applies it to its argument *)
StringOf(v) == IF v = <<>> THEN <<117, 110, 100, 101, 102, 105, 110, 101, 100>> ELSE v[1]

(* the loop without its truthiness check: every group goes through the decoder *)
DecodeQueryUnchecked(query) ==
  [ok |-> \A key \in DOMAIN query : decodeURIComponent(StringOf(query[key])).ok,
   query |-> [key \in DOMAIN query |-> <<decodeURIComponent(StringOf(query[key])).str>>]]

(* the loop with the decoder's error swallowed: a malformed value stays as it is *)
DecodeQueryLenient(query) ==
  [ok |-> TRUE,
   query |-> [key \in DOMAIN query |->
                IF Truthy(query[key]) /\ decodeURIComponent(query[key][1]).ok
                THEN <<decodeURIComponent(query[key][1]).str>>
                ELSE query[key]]]

(* for (const key in query) if (query[key]) query[key] = decodeURIComponent(query[key]!) *)
DecodeQuery(query) ==
  [ok |-> \A key \in DOMAIN query : Truthy(query[key]) => decodeURIComponent(query[key][1]).ok,
   query |-> [key \in DOMAIN query |->
                IF Truthy(query[key]) THEN <<decodeURIComponent(query[key][1]).str>>
                ELSE query[key]]]

ThrownURIError == [kind |-> "URIError", id |-> "URI malformed"]

(* pattern.test(url), pattern.exec(url)!.pathname.groups and the decode    *)
(* loop over those groups, for every pattern the constructor can yield and *)
(* every request URL, computed once                                        *)
OnUrl ==
  [pattern \in {Compiled[template].pattern : template \in Templates}, url \in Urls |->
     IF Test(pattern, url)
     THEN [test |-> TRUE, decoded |-> DecodeQuery(Exec(pattern, url))]
     ELSE [test |-> FALSE, decoded |-> [ok |-> TRUE, query |-> NoGroups]]]

(* the two continue conditions of the loop body: entry i is not skipped *)
Passes(rs, i, request) ==
  In(request.method, rs[i].methods) /\ OnUrl[rs[i].pattern, request.url].test

(* the loop body for an entry that is not skipped: outcome "call" is the   *)
(* call response({ request, info, query }), whose result handler returns   *)
Respond(rs, i, request) ==
  LET pattern == rs[i].pattern
      response == Get(rs[i].methods, request.method)
  IN IF TypeOf(response) = "function"
     THEN LET d == OnUrl[pattern, request.url].decoded
          IN IF d.ok
             THEN [index |-> i, outcome |-> "call", value |-> response, query |-> d.query]
             ELSE [index |-> i, outcome |-> "throw", value |-> ThrownURIError, query |-> NoGroups]
     ELSE [index |-> i, outcome |-> "return", value |-> response, query |-> NoGroups]

(* the loop letting a later entry override an earlier one *)
RECURSIVE ScanLastWins(_, _, _, _)
ScanLastWins(rs, i, request, notFound) ==
  IF i > Len(rs)
  THEN [index |-> 0, outcome |-> "return", value |-> notFound, query |-> NoGroups]
  ELSE LET later == ScanLastWins(rs, i + 1, request, notFound)
       IN IF later.index # 0 \/ ~Passes(rs, i, request) THEN later
          ELSE Respond(rs, i, request)

(* the for loop of handler from entry i on; notFound is what the last line returns *)
RECURSIVE Scan(_, _, _, _)
Scan(rs, i, request, notFound) ==
  IF i > Len(rs)
  THEN [index |-> 0, outcome |-> "return", value |-> notFound, query |-> NoGroups]
  ELSE IF ~Passes(rs, i, request) THEN Scan(rs, i + 1, request, notFound)
  ELSE Respond(rs, i, request)

(* what the last line of handler returns: a new object (line 99) or the field (line 221) *)
NotFound(dr) == IF dr = NoField THEN Response404("handler") ELSE dr

Handler(rs, dr, request) == Scan(rs, 1, request, NotFound(dr))

(* ---- registration ---- *)
(* unshift in place of push *)
Unshift(rs, entry) == <<entry>> \o rs

(* Array.prototype.push *)
Push(rs, entry) == Append(rs, entry)

(* the entry pushed before its pattern is known to compile *)
RoutesPushEager(rs, template, methods) ==
  Push(rs, [pattern |-> Compiled[template].pattern, methods |-> methods])

(* this._routes.push([new URLPattern({ pathname: pattern }), methods]) :   *)
(* the argument is evaluated first, so a TypeError leaves the array alone  *)
RoutesPush(rs, template, methods) ==
  LET c == Compiled[template]
  IN IF c.ok THEN Push(rs, [pattern |-> c.pattern, methods |-> methods]) ELSE rs

(* one registration call; registered is the history of the calls that returned *)
Register(op, template, methods) ==
  LET ok == Compiled[template].ok
  IN /\ ok => Len(routes) < MaxRoutes
     /\ routes' = RoutesPush(routes, template, methods)
     /\ registered' = IF ok
                      THEN Append(registered, [template |-> template, methods |-> methods])
                      ELSE registered
     /\ last' = [op |-> op, template |-> template, methods |-> methods,
                 outcome |-> IF ok THEN "return" ELSE "throw"]
     /\ UNCHANGED defaultResponse

route == \E template \in Templates, methods \in MethodResponses :
           Register("route", template, methods)

get == \E template \in Templates, response \in ResponseLike :
         Register("get", template, [m \in {"GET"} |-> response])

post == \E template \in Templates, response \in ResponseLike :
          Register("post", template, [m \in {"POST"} |-> response])

put == \E template \in Templates, response \in ResponseLike :
         Register("put", template, [m \in {"PUT"} |-> response])

delete == \E template \in Templates, response \in ResponseLike :
            Register("delete", template, [m \in {"DELETE"} |-> response])

patch == \E template \in Templates, response \in ResponseLike :
           Register("patch", template, [m \in {"PATCH"} |-> response])

(* a handler that keeps its loop position from one call to the next *)
handlerResuming ==
  \E method \in RequestMethods, url \in Urls :
    LET request == [method |-> method, url |-> url]
        from == IF last.op = "handler" /\ last.index # 0 THEN last.index + 1 ELSE 1
        r == Scan(routes, from, request, NotFound(defaultResponse))
    IN /\ last' = [op |-> "handler", request |-> request, index |-> r.index,
                   outcome |-> r.outcome, value |-> r.value, query |-> r.query]
       /\ UNCHANGED <<routes, defaultResponse, registered>>

(* one call of router.handler(request, info) *)
handler ==
  \E method \in RequestMethods, url \in Urls :
    LET request == [method |-> method, url |-> url]
        r == Handler(routes, defaultResponse, request)
    IN /\ last' = [op |-> "handler", request |-> request, index |-> r.index,
                   outcome |-> r.outcome, value |-> r.value, query |-> r.query]
       /\ UNCHANGED <<routes, defaultResponse, registered>>

(* new Router() with either class body *)
Init ==
  /\ routes = <<>>
  /\ registered = <<>>
  /\ defaultResponse \in {NoField, Response404("constructor")}
  /\ last = [op |-> "new"]

Next == route \/ get \/ post \/ put \/ delete \/ patch \/ handler

Spec == Init /\ [][Next]_vars

(***************************************************************************)
(* Properties                                                              *)
(***************************************************************************)
RegistrationOps == {"route", "get", "post", "put", "delete", "patch"}

Dispatched == last.op = "handler"

(* entry i holds a producer registered for the method and its pattern matches *)
Registered(i, request) ==
  request.method \in DOMAIN routes[i].methods /\ Test(routes[i].pattern, request.url)

RegisteredMatches(request) == {i \in 1..Len(routes) : Registered(i, request)}

FirstRegistered(request) ==
  CHOOSE i \in RegisteredMatches(request) : \A j \in RegisteredMatches(request) : i <= j

(* the matched entry captures a non-empty value that is not well-formed percent-encoding *)
Malformed(i, request) ==
  LET groups == Exec(routes[i].pattern, request.url)
  IN \E key \in DOMAIN groups :
       groups[key] # <<>> /\ groups[key][1] # <<>> /\ ~decodeURIComponent(groups[key][1]).ok

IsDefault404(value) == value \in {Response404("constructor"), Response404("handler")}

(* C1 as stated: whenever some entry registers the request's method and    *)
(* matches its URL, handler uses the producer of the earliest such entry.  *)
C1_ProducerAlwaysUsed ==
  (Dispatched /\ RegisteredMatches(last.request) # {}) =>
    LET i == FirstRegistered(last.request)
    IN /\ last.index = i
       /\ last.outcome \in {"return", "call"}
       /\ last.value = routes[i].methods[last.request.method]

(* C1 amended: handler settles on the earliest entry that registers the    *)
(* method and matches the URL and never on a later one; it uses that       *)
(* entry's producer, unless the producer is a function and a captured      *)
(* value is malformed, when it throws the decode error and uses none.      *)
C1_FirstMatchWins ==
  (Dispatched /\ RegisteredMatches(last.request) # {}) =>
    LET i == FirstRegistered(last.request)
        producer == routes[i].methods[last.request.method]
    IN /\ last.index = i
       /\ IF TypeOf(producer) = "function" /\ Malformed(i, last.request)
          THEN last.outcome = "throw" /\ last.value = ThrownURIError
          ELSE /\ last.outcome = (IF TypeOf(producer) = "function" THEN "call" ELSE "return")
               /\ last.value = producer

(* two entries register the method and match the URL with different        *)
(* producers, and the dispatch used the first one's                        *)
C1_Witness ==
  /\ Dispatched
  /\ Len(routes) >= 2
  /\ Registered(1, last.request) /\ Registered(2, last.request)
  /\ routes[1].methods[last.request.method] # routes[2].methods[last.request.method]
  /\ last.index = 1
  /\ last.value = routes[1].methods[last.request.method]

(* C2: when no entry both registers the request's method and matches its   *)
(* URL, handler returns the 404 response with an empty body and calls no   *)
(* function.                                                               *)
C2_NoMatchIs404 ==
  (Dispatched /\ RegisteredMatches(last.request) = {}) =>
    /\ last.outcome = "return"
    /\ IsDefault404(last.value)
    /\ last.value.status = 404 /\ last.value.body = "null"

(* C3: an entry that matches the path without registering the method does  *)
(* not end the scan: a later entry with both is used, and without one the  *)
(* answer is the 404.                                                      *)
C3_ScanContinues ==
  (/\ Dispatched
   /\ \E i \in 1..Len(routes) :
        /\ Test(routes[i].pattern, last.request.url)
        /\ last.request.method \notin DOMAIN routes[i].methods
        /\ \A j \in RegisteredMatches(last.request) : i < j) =>
    IF RegisteredMatches(last.request) # {}
    THEN last.index = FirstRegistered(last.request)
    ELSE last.index = 0 /\ last.outcome = "return" /\ IsDefault404(last.value)

(* C4: a request whose method is none of GET, POST, PUT, DELETE, PATCH     *)
(* matches no route and is answered with the 404.                          *)
C4_UnknownMethodIs404 ==
  (Dispatched /\ last.request.method \notin Method) =>
    last.index = 0 /\ last.outcome = "return" /\ IsDefault404(last.value)

(* C5: the query a handler function is called with holds, for every group  *)
(* of the matched pattern, the captured value decoded once when it is a    *)
(* non-empty string, and the captured value itself when it is empty or     *)
(* undefined; "a%20b" is passed as "a b" and "a%2Fb" decodes to "a/b".     *)
C5_QueryDecodedOnce ==
  /\ decodeURIComponent(<<97, 37, 50, 70, 98>>) = [ok |-> TRUE, str |-> <<97, 47, 98>>]
  /\ (Dispatched /\ last.outcome = "call") =>
       LET groups == Exec(routes[last.index].pattern, last.request.url)
       IN /\ DOMAIN last.query = DOMAIN groups
          /\ \A key \in DOMAIN groups :
               IF groups[key] = <<>> \/ groups[key] = << <<>> >>
               THEN last.query[key] = groups[key]
               ELSE /\ decodeURIComponent(groups[key][1]).ok
                    /\ last.query[key] = <<decodeURIComponent(groups[key][1]).str>>
          /\ last.request.url = UXSpace =>
               \A key \in DOMAIN groups : last.query[key] = << <<97, 32, 98>> >>

(* a handler function was called with "a%20b" decoded to "a b" *)
C5_Witness ==
  /\ Dispatched /\ last.outcome = "call" /\ last.value = F1
  /\ last.request.url = UXSpace
  /\ \E key \in DOMAIN last.query : last.query[key] = << <<97, 32, 98>> >>

(* a handler function was called with an empty capture left as it is *)
C5_EmptyReached ==
  Dispatched /\ last.outcome = "call" /\ \E key \in DOMAIN last.query : last.query[key] = << <<>> >>

(* a handler function was called with an undefined capture left as it is *)
C5_AbsentReached ==
  Dispatched /\ last.outcome = "call" /\ \E key \in DOMAIN last.query : last.query[key] = <<>>

(* the table that the registration calls that returned describe *)
EntriesOf(history) ==
  [i \in 1..Len(history) |->
     [pattern |-> Compiled[history[i].template].pattern, methods |-> history[i].methods]]

(* C6: the route table is the sequence of the registrations that returned, *)
(* in the order of the calls; a step changes it only by a registration     *)
(* appending its one entry at the end, and a dispatch leaves it as it is.  *)
C6_TableIsRegistrationOrder ==
  /\ [](routes = EntriesOf(registered))
  /\ [][/\ last'.op = "handler" => routes' = routes
        /\ routes' # routes =>
             /\ last'.op \in RegistrationOps /\ last'.outcome = "return"
             /\ routes' = Append(routes, [pattern |-> Compiled[last'.template].pattern,
                                          methods |-> last'.methods])]_vars

(* two different entries were registered and a dispatch followed *)
C6_Witness ==
  Dispatched /\ Len(routes) = 2 /\ routes[1] # routes[2] /\ last.index = 2

(* C7: every dispatch without a match returns the one default response of  *)
(* the router instance, the object held since construction.                *)
C7_DefaultIsSingleton ==
  (Dispatched /\ last.index = 0) => last.value = Response404("constructor")

(* C8: a registration whose template does not compile throws and leaves    *)
(* the table as it was, and the table never holds an entry without a       *)
(* compiled pattern.                                                       *)
C8_FailedRegistrationAddsNothing ==
  /\ [](\A i \in 1..Len(routes) :
          \E template \in Templates :
            Compiled[template].ok /\ routes[i].pattern = Compiled[template].pattern)
  /\ [][(last'.op \in RegistrationOps /\ last'.outcome = "throw") =>
          (routes' = routes /\ ~Compiled[last'.template].ok)]_vars

(* a registration threw on a table that already held an entry *)
C8_Witness ==
  last.op \in RegistrationOps /\ last.outcome = "throw" /\ Len(routes) >= 1

====
